---- MODULE Spec2Model ----
(***************************************************************************)
(* Model of src/hydra/head_manager.py: the Hydra Head client (HydraClient) *)
(* with its connection set-up, its command methods, the direct ("mock")    *)
(* mode that answers commands locally, and the event subscription; and    *)
(* the HydraNegotiationManager built on it (open_negotiation,              *)
(* submit_counter_offer, accept_and_settle), whose coroutines run the      *)
(* client's commands and are suspended where those are.                    *)
(*                                                                         *)
(* Callers are asyncio tasks.  Code between two awaits that suspend runs   *)
(* atomically, so every action below is one such stretch of one task:     *)
(* a command call up to `await asyncio.sleep(0.1)` (line 490), the state   *)
(* update after it (lines 492-506), and the HeadIsOpen step after          *)
(* `await asyncio.sleep(0.2)` (lines 497-506).                             *)
(*                                                                         *)
(* _connected is set and _receive_loop started only at lines 207-211,      *)
(* inside the connection loop that connect() never enters (see Connect),   *)
(* so in the runs that begin at construction (Spec, SpecConn, SpecMgr)     *)
(* there is no socket: the client is in direct mode or unconnected.  The   *)
(* receive loop and _handle_message are examined in SpecRecv, which        *)
(* begins in the state those lines would establish.                        *)
(***************************************************************************)
EXTENDS Integers, Sequences, FiniteSets, TLC

\* ------------------------------------------------------------------ bounds
\* Commands issued in one run, seconds the clock may advance, handlers
\* registered with on().
MaxCmds == 2
MaxTime == 1
MaxRegs == 1
\* Manager calls (open, counter-offer, settle) made in one run, and in the
\* longer runs that the reuse of a settled id needs.
MaxOps == 3
MaxOpsDeep == 4
\* Frames the node writes to the socket, and handlers registered, in the
\* runs of the receive loop.
MaxFrames == 2
MaxSockRegs == 2

Tasks == {"t1", "t2"}
Handlers == {"h1"}

\* ------------------------------------------------------- enums (lines 55-69)
IDLE == "Idle"
INITIALIZING == "Initializing"
OPEN == "Open"
CLOSED == "Closed"
FANOUT_POSSIBLE == "FanoutPossible"
FINAL == "Final"
HeadState == {IDLE, INITIALIZING, OPEN, CLOSED, FANOUT_POSSIBLE, FINAL}

\* The members of the enum ConnectionMode.  There is no member MOCK.
ConnectionMode == {"REAL", "DIRECT", "AUTO"}

\* HydraConfig.reconnect_attempts (line 78): the connection attempts connect()
\* is configured to make.
reconnect_attempts == 3

\* Commands the client sends and the events handlers may subscribe to.
Commands == {"Init", "Commit", "NewTx", "Close", "Fanout", "GetUTxO"}
Events == {"HeadIsInitializing", "HeadIsOpen", "Committed", "TxValid",
           "HeadIsClosed", "HeadIsFinalized"}

\* Python's None for head_id, and the id f"mock_head_{timestamp}".
None == <<"None", 0>>
MockHeadId(timestamp) == <<"mock_head", timestamp>>

\* The exceptions the modelled code raises.
NotConnectedError == "ConnectionError: Not connected to Hydra node"
AttributeErrorMOCK == "AttributeError: MOCK"

VARIABLES
    WEBSOCKETS_AVAILABLE, \* module flag set by the import at lines 28-34
    mode,                 \* config.mode
    websocket,            \* self.websocket
    state,                \* self.state
    head_id,              \* self.head_id
    utxos,                \* self.utxos
    event_handlers,       \* self._event_handlers: event -> list of handlers
    connected,            \* self._connected
    mock_mode,            \* self._mock_mode
    now,                  \* int(time.time())
    pc,                   \* per task: where its coroutine is suspended
    call,                 \* per task: the command it last issued and its number
    resp,                 \* per task: `response` of _mock_response
    result,               \* per task: how its last command ended
    connect_result,       \* how the last connect() ended
    attempts,             \* websockets.connect calls made so far
    sent,                 \* frames written to the socket
    delivered,            \* handler invocations, in order
    ncmds,                \* commands issued so far
    active_negotiations,  \* manager: head id -> NegotiationState object
    heap,                 \* the NegotiationState objects created, by reference
    mpc,                  \* per task: where its manager coroutine is suspended
    margs,                \* per task: arguments and locals of its manager call
    mresult,              \* per task: how its last manager call ended
    nops,                 \* manager calls the callers may still make
    inbox,                \* frames the node has written that the client has not read
    receive_task,         \* self._receive_task: "none", "running", "done", "cancelled"
    dpc,                  \* where the caller of disconnect() is suspended, or "idle"
    disconnected          \* the caller's note: disconnect() returned, no connect() since

vars == <<WEBSOCKETS_AVAILABLE, mode, websocket, state, head_id, utxos,
          event_handlers, connected, mock_mode, now, pc, call, resp, result,
          connect_result, attempts, sent, delivered, ncmds,
          active_negotiations, heap, mpc, margs, mresult, nops,
          inbox, receive_task, dpc, disconnected>>

\* The manager's part of the state.
mgrVars == <<active_negotiations, heap, mpc, margs, mresult, nops>>
\* The socket's side of the state.
sockVars == <<inbox, receive_task, dpc>>
\* The caller's note.
noteVars == <<disconnected>>

NoCall == [n |-> 0, tag |-> "none"]
NoResp == [tag |-> "none", headId |-> None]
NoResult == [kind |-> "none", val |-> "none"]
Return(v) == [kind |-> "return", val |-> v]
Raise(e) == [kind |-> "raise", val |-> e]
NoArgs == [op |-> "none", key |-> None, rate |-> 0, from |-> "none", obj |-> 0,
           called_rate |-> 0]

\* HydraClient.__init__ (lines 159-170), for every configured mode and both
\* outcomes of the websockets import.
InitClient ==
    /\ WEBSOCKETS_AVAILABLE \in BOOLEAN
    /\ mode \in ConnectionMode
    /\ websocket = None
    /\ state = IDLE
    /\ head_id = None
    /\ utxos = "empty"
    /\ event_handlers = [e \in Events |-> <<>>]
    /\ connected = FALSE
    /\ mock_mode = FALSE
    /\ now = 0
    /\ pc = [t \in Tasks |-> "idle"]
    /\ call = [t \in Tasks |-> NoCall]
    /\ resp = [t \in Tasks |-> NoResp]
    /\ result = [t \in Tasks |-> NoResult]
    /\ connect_result = NoResult
    /\ attempts = 0
    /\ sent = <<>>
    /\ delivered = <<>>
    /\ ncmds = 0
    /\ inbox = <<>>
    /\ receive_task = "none"
    /\ dpc = "idle"
    /\ disconnected = FALSE

\* HydraNegotiationManager.__init__ (lines 524-527): no session; no call is
\* running, and the callers will make `budget` calls.
InitManager(budget) ==
    /\ active_negotiations = [k \in {} |-> 0]
    /\ heap = <<>>
    /\ mpc = [t \in Tasks |-> "idle"]
    /\ margs = [t \in Tasks |-> NoArgs]
    /\ mresult = [t \in Tasks |-> NoResult]
    /\ nops = budget

Init == InitClient /\ InitManager(0)

\* The wall clock moves on between any two steps.
Tick ==
    /\ now < MaxTime
    /\ now' = now + 1
    /\ UNCHANGED <<WEBSOCKETS_AVAILABLE, mode, websocket, state, head_id, utxos,
                   event_handlers, connected, mock_mode, pc, call, resp, result,
                   connect_result, attempts, sent, delivered, ncmds>>

\* ------------------------------------------------------------ connection
\* HydraClient.connect.  Without the websockets package the client goes to
\* direct mode whatever config.mode says (lines 183-186).  With it, line 188
\* evaluates ConnectionMode.MOCK, which is no member of the enum: the lookup
\* raises AttributeError before the comparison, for every mode, so the
\* connection loop of lines 193-233 is never entered and no socket is tried.
ConnectBody ==
    IF ~WEBSOCKETS_AVAILABLE
    THEN /\ mock_mode' = TRUE
         /\ connect_result' = Return("False")
    ELSE /\ "MOCK" \notin ConnectionMode
         /\ connect_result' = Raise(AttributeErrorMOCK)
         /\ UNCHANGED mock_mode

Connect ==
    /\ ConnectBody
    /\ UNCHANGED <<WEBSOCKETS_AVAILABLE, mode, websocket, state, head_id, utxos,
                   event_handlers, connected, now, pc, call, resp, result,
                   attempts, sent, delivered, ncmds>>

\* What disconnect() leaves alone.
DisconnectFrame ==
    UNCHANGED <<WEBSOCKETS_AVAILABLE, mode, state, head_id, utxos,
                event_handlers, mock_mode, now, pc, call, resp, result,
                connect_result, attempts, sent, delivered, ncmds, inbox>>

\* disconnect() from line 244 on.  An open socket is closed with
\* `await self.websocket.close()` (line 245), which suspends the caller or
\* not as the socket's close does; lines 248-249 clear _connected and the
\* socket only after that.
CloseSocket ==
    IF websocket # None
    THEN \/ /\ dpc' = "closing"
            /\ UNCHANGED <<connected, websocket>>
         \/ /\ dpc' = "idle"
            /\ connected' = FALSE
            /\ websocket' = None
    ELSE /\ dpc' = "idle"
         /\ connected' = FALSE
         /\ websocket' = None

\* HydraClient.disconnect up to its first suspension.  A running receive
\* task is cancelled and awaited (lines 237-242): the caller is suspended
\* at line 240 with _connected and the socket still as they were, and the
\* task reads no further frame.  Awaiting a task that has ended, or having
\* none, does not suspend, and the call goes on at line 244.  The frames
\* not yet read stay unread.
Disconnect ==
    /\ dpc = "idle"
    /\ IF receive_task = "running"
       THEN /\ receive_task' = "cancelled"
            /\ dpc' = "await_task"
            /\ UNCHANGED <<connected, websocket>>
       ELSE /\ CloseSocket
            /\ UNCHANGED receive_task
    /\ DisconnectFrame

\* The cancelled receive task has ended and disconnect() resumes from line
\* 240.
DisconnectAwaited ==
    /\ dpc = "await_task"
    /\ CloseSocket
    /\ UNCHANGED receive_task
    /\ DisconnectFrame

\* websocket.close() has returned and disconnect() runs lines 246-249.
DisconnectClosed ==
    /\ dpc = "closing"
    /\ dpc' = "idle"
    /\ connected' = FALSE
    /\ websocket' = None
    /\ UNCHANGED receive_task
    /\ DisconnectFrame

\* ---------------------------------------------------------------- events
NumRegs == Len(event_handlers["HeadIsInitializing"]) + Len(event_handlers["HeadIsOpen"])
           + Len(event_handlers["Committed"]) + Len(event_handlers["TxValid"])
           + Len(event_handlers["HeadIsClosed"]) + Len(event_handlers["HeadIsFinalized"])

\* self._event_handlers.get(event, []) of line 301.
HandlersOf(event) ==
    IF event \in DOMAIN event_handlers THEN event_handlers[event] ELSE <<>>

\* HydraClient.on: append the handler to the event's list, which is created
\* when the event has none (lines 295-297).
On(event, handler) ==
    /\ event_handlers' =
          [e \in DOMAIN event_handlers \cup {event} |->
              IF e = event THEN Append(HandlersOf(e), handler) ELSE event_handlers[e]]
    /\ UNCHANGED <<WEBSOCKETS_AVAILABLE, mode, websocket, state, head_id, utxos,
                   connected, mock_mode, now, pc, call, resp, result,
                   connect_result, attempts, sent, delivered, ncmds>>

\* One handler invocation as the handler sees it: the event it was
\* registered for, the data's headId and the client's state at that moment.
Invocation(handler, event, dataHeadId, st) ==
    [handler |-> handler, event |-> event, headId |-> dataHeadId, state |-> st]

\* The handlers a caller registers: h1 returns, h_raises raises an Exception.
Raises(handler) == handler = "h_raises"

\* HydraClient._emit_event: the handlers registered for `event` are invoked
\* in registration order; one that raises is logged and the loop goes on
\* (lines 302-306).  The log after they ran.
EmitEventMut(log, event, dataHeadId, st) ==
    LET hs == HandlersOf(event)
        stop == {i \in 1..Len(hs) : Raises(hs[i])}
        last == IF stop = {} THEN Len(hs)
                ELSE CHOOSE i \in stop : \A j \in stop : i <= j
    IN  log \o [i \in 1..last |-> Invocation(hs[i], event, dataHeadId, st)]
EmitEvent(log, event, dataHeadId, st) ==
    log \o [i \in 1..Len(HandlersOf(event)) |->
               Invocation(HandlersOf(event)[i], event, dataHeadId, st)]

\* -------------------------------------------------------------- commands
\* The dict mock_responses of _mock_response (lines 438-487), built when the
\* command is issued: timestamp and self.head_id are read at that moment.
MockResponses(tag) ==
    CASE tag = "Init" -> [tag |-> "HeadIsInitializing", headId |-> MockHeadId(now)]
      [] tag = "Commit" -> [tag |-> "Committed", headId |-> None]
      [] tag = "NewTx" -> [tag |-> "TxValid",
                           headId |-> IF head_id # None THEN head_id ELSE MockHeadId(now)]
      [] tag = "Close" -> [tag |-> "HeadIsClosed",
                           headId |-> IF head_id # None THEN head_id ELSE MockHeadId(now)]
      [] tag = "Fanout" -> [tag |-> "HeadIsFinalized",
                            headId |-> IF head_id # None THEN head_id ELSE MockHeadId(now)]
      [] tag = "GetUTxO" -> [tag |-> "GetUTxOResponse", headId |-> None]
      [] OTHER -> [tag |-> "Unknown", headId |-> None]

\* The test of line 317.
NotConnectedMut == FALSE
NotConnected == ~connected \/ websocket = None

\* HydraClient._send_command as far as its first suspension: in direct mode
\* the response is built and the task sleeps (line 490); without a
\* connection it raises; else the frame goes to the socket.
SendCommand(t, tag) ==
    /\ pc[t] = "idle"
    /\ ncmds' = ncmds + 1
    /\ call' = [call EXCEPT ![t] = [n |-> call[t].n + 1, tag |-> tag]]
    /\ IF mock_mode
       THEN /\ resp' = [resp EXCEPT ![t] = MockResponses(tag)]
            /\ pc' = [pc EXCEPT ![t] = "mock_delay"]
            /\ result' = [result EXCEPT ![t] = NoResult]
            /\ UNCHANGED sent
       ELSE IF NotConnected
       THEN /\ result' = [result EXCEPT ![t] = Raise(NotConnectedError)]
            /\ UNCHANGED <<resp, pc, sent>>
       ELSE /\ sent' = Append(sent, tag)
            /\ result' = [result EXCEPT ![t] = Return("sent")]
            /\ UNCHANGED <<resp, pc>>
    /\ UNCHANGED <<WEBSOCKETS_AVAILABLE, mode, websocket, state, head_id, utxos,
                   event_handlers, connected, mock_mode, now, connect_result,
                   attempts, delivered>>

\* The command methods: each builds its frame and awaits _send_command.
InitHead(t) == SendCommand(t, "Init")
Commit(t) == SendCommand(t, "Commit")
NewTx(t) == SendCommand(t, "NewTx")
Close(t) == SendCommand(t, "Close")
Fanout(t) == SendCommand(t, "Fanout")
GetUTxO(t) == SendCommand(t, "GetUTxO")

\* _mock_response after the simulated network delay (lines 492-506): Init
\* moves to INITIALIZING, takes the response's head id and sleeps again;
\* Close and Fanout set the state; every other command just returns.
MockUpdate(t) ==
    /\ pc[t] = "mock_delay"
    /\ IF call[t].tag = "Init"
       THEN /\ state' = INITIALIZING
            /\ head_id' = resp[t].headId
            /\ pc' = [pc EXCEPT ![t] = "mock_open_delay"]
            /\ UNCHANGED result
       ELSE /\ state' = CASE call[t].tag = "Close" -> CLOSED
                          [] call[t].tag = "Fanout" -> FINAL
                          [] OTHER -> state
            /\ pc' = [pc EXCEPT ![t] = "idle"]
            /\ result' = [result EXCEPT ![t] = Return(resp[t].tag)]
            /\ UNCHANGED head_id
    /\ UNCHANGED <<WEBSOCKETS_AVAILABLE, mode, websocket, utxos, event_handlers,
                   connected, mock_mode, now, call, resp, connect_result,
                   attempts, sent, delivered, ncmds>>

\* _mock_response for Init after the second sleep (lines 498-506): the head
\* is OPEN, HeadIsOpen is emitted with the client's current head id, and the
\* HeadIsInitializing response is returned.
MockOpen(t) ==
    /\ pc[t] = "mock_open_delay"
    /\ state' = OPEN
    /\ delivered' = EmitEvent(delivered, "HeadIsOpen", head_id, OPEN)
    /\ pc' = [pc EXCEPT ![t] = "idle"]
    /\ result' = [result EXCEPT ![t] = Return(resp[t].tag)]
    /\ UNCHANGED <<WEBSOCKETS_AVAILABLE, mode, websocket, head_id, utxos,
                   event_handlers, connected, mock_mode, now, call, resp,
                   connect_result, attempts, sent, ncmds>>

\* The client driven directly: any caller issues any command, at most
\* MaxCmds of them; the manager is not used.
Next ==
    \/ Tick /\ UNCHANGED <<mgrVars, sockVars, noteVars>>
    \/ Connect /\ UNCHANGED <<mgrVars, sockVars, noteVars>>
    \/ Disconnect /\ UNCHANGED <<mgrVars, noteVars>>
    \/ \E e \in Events, h \in Handlers :
          NumRegs < MaxRegs /\ On(e, h) /\ UNCHANGED <<mgrVars, sockVars, noteVars>>
    \/ \E t \in Tasks : ncmds < MaxCmds /\ InitHead(t)
          /\ UNCHANGED <<mgrVars, sockVars, noteVars>>
    \/ \E t \in Tasks : ncmds < MaxCmds /\ Commit(t)
          /\ UNCHANGED <<mgrVars, sockVars, noteVars>>
    \/ \E t \in Tasks : ncmds < MaxCmds /\ NewTx(t)
          /\ UNCHANGED <<mgrVars, sockVars, noteVars>>
    \/ \E t \in Tasks : ncmds < MaxCmds /\ Close(t)
          /\ UNCHANGED <<mgrVars, sockVars, noteVars>>
    \/ \E t \in Tasks : ncmds < MaxCmds /\ Fanout(t)
          /\ UNCHANGED <<mgrVars, sockVars, noteVars>>
    \/ \E t \in Tasks : ncmds < MaxCmds /\ GetUTxO(t)
          /\ UNCHANGED <<mgrVars, sockVars, noteVars>>
    \/ \E t \in Tasks : MockUpdate(t)
          /\ UNCHANGED <<mgrVars, sockVars, noteVars>>
    \/ \E t \in Tasks : MockOpen(t)
          /\ UNCHANGED <<mgrVars, sockVars, noteVars>>

Spec == Init /\ [][Next]_vars

\* The same client with the caller keeping note of its own connect() and
\* disconnect() calls; the clock plays no part here.
ConnectCall ==
    /\ Connect
    /\ disconnected' = FALSE
    /\ UNCHANGED <<mgrVars, sockVars>>

\* The caller's note is made when disconnect() returns.
Disconnected == disconnected' = IF dpc' = "idle" THEN TRUE ELSE disconnected

DisconnectCall ==
    /\ Disconnect
    /\ Disconnected
    /\ UNCHANGED mgrVars

DisconnectResumes ==
    /\ DisconnectAwaited \/ DisconnectClosed
    /\ Disconnected
    /\ UNCHANGED mgrVars

NextConn ==
    \/ ConnectCall
    \/ DisconnectCall
    \/ \E e \in Events, h \in Handlers :
          NumRegs < MaxRegs /\ On(e, h) /\ UNCHANGED <<mgrVars, sockVars, noteVars>>
    \/ \E t \in Tasks : ncmds < MaxCmds /\ InitHead(t)
          /\ UNCHANGED <<mgrVars, sockVars, noteVars>>
    \/ \E t \in Tasks : ncmds < MaxCmds /\ Commit(t)
          /\ UNCHANGED <<mgrVars, sockVars, noteVars>>
    \/ \E t \in Tasks : ncmds < MaxCmds /\ NewTx(t)
          /\ UNCHANGED <<mgrVars, sockVars, noteVars>>
    \/ \E t \in Tasks : ncmds < MaxCmds /\ Close(t)
          /\ UNCHANGED <<mgrVars, sockVars, noteVars>>
    \/ \E t \in Tasks : ncmds < MaxCmds /\ Fanout(t)
          /\ UNCHANGED <<mgrVars, sockVars, noteVars>>
    \/ \E t \in Tasks : ncmds < MaxCmds /\ GetUTxO(t)
          /\ UNCHANGED <<mgrVars, sockVars, noteVars>>
    \/ \E t \in Tasks : MockUpdate(t)
          /\ UNCHANGED <<mgrVars, sockVars, noteVars>>
    \/ \E t \in Tasks : MockOpen(t)
          /\ UNCHANGED <<mgrVars, sockVars, noteVars>>

SpecConn == Init /\ [][NextConn]_vars

\* ======================================================================
\* The socket path
\* ======================================================================
\* What lines 198-215 leave when websockets.connect succeeds: the socket is
\* stored, _connected is set, direct mode is off, the receive task runs and
\* connect returns True ("connected" is emitted before any handler can be
\* registered for it).  connect() itself never gets to these lines (see
\* Connect), so no run of the program is in this state.  SpecRecv starts
\* here to examine _receive_loop, _handle_message and _emit_event as they
\* are written: what holds of every step of the receive loop from here
\* holds of these functions however they come to run, while a step found
\* from here is not thereby a step of the program.
Socket == <<"socket", 0>>

InitEstablished ==
    /\ WEBSOCKETS_AVAILABLE = TRUE
    /\ mode = "AUTO"
    /\ websocket = Socket
    /\ state = IDLE
    /\ head_id = None
    /\ utxos = "empty"
    /\ connected = TRUE
    /\ mock_mode = FALSE
    /\ now = 0
    /\ pc = [t \in Tasks |-> "idle"]
    /\ call = [t \in Tasks |-> NoCall]
    /\ resp = [t \in Tasks |-> NoResp]
    /\ result = [t \in Tasks |-> NoResult]
    /\ connect_result = Return("True")
    /\ attempts = 1
    /\ sent = <<>>
    /\ delivered = <<>>
    /\ ncmds = 0
    /\ receive_task = "running"
    /\ dpc = "idle"
    /\ disconnected = FALSE

\* An inbound frame: text that json.loads rejects, or a JSON object with or
\* without the keys tag, headId and utxo.
Frame(tag, headId, utxo) ==
    [malformed |-> FALSE, tag |-> tag, headId |-> headId, utxo |-> utxo]
MalformedFrame ==
    [malformed |-> TRUE, tag |-> "absent", headId |-> None, utxo |-> "absent"]
NodeHeadId == <<"node_head", 0>>
Frames == {Frame("HeadIsOpen", NodeHeadId, "absent"),
           Frame("SnapshotConfirmed", None, "u1"),
           Frame("absent", None, "absent"),
           MalformedFrame}
FrameSeqs == UNION {[1..n -> Frames] : n \in 0..MaxFrames}

\* The dict state_updates of _handle_message (lines 269-275).
StateUpdates ==
    [tag \in {"HeadIsInitializing", "HeadIsOpen", "HeadIsClosed", "ReadyToFanout",
              "HeadIsFinalized"} |->
        CASE tag = "HeadIsInitializing" -> INITIALIZING
          [] tag = "HeadIsOpen" -> OPEN
          [] tag = "HeadIsClosed" -> CLOSED
          [] tag = "ReadyToFanout" -> FANOUT_POSSIBLE
          [] tag = "HeadIsFinalized" -> FINAL]

\* message.get("tag", "Unknown") of line 265.
TagOf(f) == IF f.tag = "absent" THEN "Unknown" ELSE f.tag

\* HydraClient._handle_message on the decoded frame f (lines 263-287).
HandleMessage(f) ==
    /\ state' = IF TagOf(f) \in DOMAIN StateUpdates THEN StateUpdates[TagOf(f)] ELSE state
    /\ head_id' = IF TagOf(f) = "HeadIsOpen" /\ f.headId # None THEN f.headId ELSE head_id
    /\ utxos' = IF f.utxo # "absent" THEN f.utxo ELSE utxos
    /\ delivered' = EmitEvent(delivered, TagOf(f), f.headId, state')

\* One turn of _receive_loop (lines 251-261): the next frame is read and
\* decoded and _handle_message runs on it.  json.loads raising on the frame
\* is caught by `except Exception` outside the loop: _connected is cleared
\* and the task ends.
ReceiveFrame ==
    /\ receive_task = "running"
    /\ inbox # <<>>
    /\ inbox' = Tail(inbox)
    /\ IF Head(inbox).malformed
       THEN /\ connected' = FALSE
            /\ receive_task' = "done"
            /\ UNCHANGED <<state, head_id, utxos, delivered>>
       ELSE /\ HandleMessage(Head(inbox))
            /\ UNCHANGED <<connected, receive_task>>
    /\ UNCHANGED <<WEBSOCKETS_AVAILABLE, mode, websocket, event_handlers, mock_mode,
                   now, pc, call, resp, result, connect_result, attempts, sent, ncmds,
                   dpc>>

\* The events and handlers the callers of these runs register.
RecvEvents == {"HeadIsOpen", "SnapshotConfirmed", "Unknown"}
RecvHandlers == {"h1", "h_raises"}
SockRegs == Len(HandlersOf("HeadIsOpen")) + Len(HandlersOf("SnapshotConfirmed"))
            + Len(HandlersOf("Unknown"))

\* The receive loop on an established socket: the node's frames are fixed
\* at the start, the caller registers handlers and may disconnect.
InitRecv ==
    /\ InitEstablished
    /\ event_handlers = [e \in Events |-> <<>>]
    /\ inbox \in FrameSeqs
    /\ InitManager(0)

NextRecv ==
    \/ \E e \in RecvEvents, h \in RecvHandlers :
          SockRegs < MaxSockRegs /\ On(e, h) /\ UNCHANGED <<mgrVars, sockVars, noteVars>>
    \/ ReceiveFrame /\ UNCHANGED <<mgrVars, noteVars>>
    \/ DisconnectCall
    \/ DisconnectResumes

SpecRecv == InitRecv /\ [][NextRecv]_vars

\* ======================================================================
\* HydraNegotiationManager
\* ======================================================================
\* The arguments the callers pass: the addresses, principal and term of
\* run_demo_negotiation, and two interest rates.  A rate is written in
\* hundredths of a percent: 750 is the float 7.5 and 820 the float 8.2.
Borrower == "addr1_borrower_alice"
Lender == "addr1_lender_bob"
\* The offers are the borrower's.
Parties == {Borrower}
DemoPrincipal == 1000
DemoTermMonths == 12
Rates == {750, 820}
\* The ids a caller may pass to submit_counter_offer and accept_and_settle.
HeadIds == {MockHeadId(i) : i \in 0..MaxTime}

\* The exceptions of the manager: lines 612 and 665, and the del of line 696.
SessionNotFound == "ValueError: No active negotiation with head_id"
KeyErrorHeadId == "KeyError: head_id"

\* int(rate * 100) of line 690 in IEEE double arithmetic: 7.5 * 100 is 750.0,
\* 8.2 * 100 is 819.9999999999999 and int() truncates it.
IntRateTimes100(rate) ==
    CASE rate = 750 -> 750
      [] rate = 820 -> 819
      [] OTHER -> rate

\* The dataclass NegotiationState as open_negotiation constructs it
\* (lines 574-582): rounds and messages take their defaults.  The wall-clock
\* readings created_at and the records' timestamp are left out: nothing in
\* the program reads them.
NegotiationStateMut(key, interest_rate) ==
    [head_id |-> key, borrower |-> Borrower, lender |-> Lender,
     original_rate |-> interest_rate, current_rate |-> 0,
     principal |-> DemoPrincipal, term_months |-> DemoTermMonths,
     rounds |-> 1, messages |-> <<>>]
NegotiationState(key, interest_rate) ==
    [head_id |-> key, borrower |-> Borrower, lender |-> Lender,
     original_rate |-> interest_rate, current_rate |-> interest_rate,
     principal |-> DemoPrincipal, term_months |-> DemoTermMonths,
     rounds |-> 0, messages |-> <<>>]

\* The dataclass Settlement as accept_and_settle constructs it (lines
\* 684-693) from the session object it holds.
Settlement(key, s) ==
    [tx_hash |-> <<"tx", key, now>>, borrower |-> s.borrower, lender |-> s.lender,
     principal |-> s.principal, final_rate |-> s.current_rate,
     final_rate_bps |-> IntRateTimes100(s.current_rate),
     term_months |-> s.term_months, status |-> "SETTLED"]

\* dict assignment and del.
Put(table, key, ref) ==
    [k \in DOMAIN table \cup {key} |-> IF k = key THEN ref ELSE table[k]]
Remove(table, key) == [k \in DOMAIN table \ {key} |-> table[k]]

\* state.rounds += 1 (line 615) on the object a call holds.
BumpRoundsMut(h, o) == h
BumpRounds(h, o) == [h EXCEPT ![o].rounds = @ + 1]

\* Lines 635-642 on the object a call holds: the rate is replaced and a
\* record is appended whose round is the object's counter at that moment.
OfferAppliedMut(h, o, proposed_rate, from_party) ==
    [i \in 1..Len(h) |->
        [h[i] EXCEPT !.current_rate = proposed_rate,
                     !.messages = Append(@, [round |-> h[i].rounds, from |-> from_party,
                                             rate |-> proposed_rate])]]
OfferAppliedStale(h, o, proposed_rate, from_party) ==
    [h EXCEPT ![o].messages = Append(@, [round |-> h[o].rounds, from |-> from_party,
                                         rate |-> proposed_rate])]
OfferApplied(h, o, proposed_rate, from_party) ==
    [h EXCEPT ![o].current_rate = proposed_rate,
              ![o].messages = Append(@, [round |-> h[o].rounds, from |-> from_party,
                                         rate |-> proposed_rate])]

\* How the command a manager step has just issued or resumed came out.
CmdRaised(t) == result'[t].kind = "raise"
CmdReturned(t) == result'[t].kind = "return" /\ pc'[t] = "idle"

\* HydraNegotiationManager.start, called once: connect, and when connect
\* returned, the three registrations of lines 534-536.  connect has no
\* suspension on the paths that exist, so the whole of start is one step.
Start ==
    /\ connect_result.kind = "none"
    /\ ConnectBody
    /\ event_handlers' =
          IF connect_result'.kind = "return"
          THEN [event_handlers EXCEPT !["HeadIsOpen"] = Append(@, "_on_head_open"),
                                      !["TxValid"] = Append(@, "_on_tx_valid"),
                                      !["HeadIsClosed"] = Append(@, "_on_head_closed")]
          ELSE event_handlers
    /\ UNCHANGED <<WEBSOCKETS_AVAILABLE, mode, websocket, state, head_id, utxos,
                   connected, now, pc, call, resp, result, attempts, sent,
                   delivered, ncmds>>
    /\ UNCHANGED mgrVars

\* HydraNegotiationManager.stop.
Stop == Disconnect /\ UNCHANGED mgrVars

\* -------------------------------------------------------- open_negotiation
\* Lines 574-592: the session object is created, stored under the key the
\* call holds (an entry already there is replaced) and returned.
Register(t) ==
    /\ heap' = Append(heap, NegotiationState(margs[t].key, margs[t].rate))
    /\ active_negotiations' = Put(active_negotiations, margs[t].key, Len(heap) + 1)
    /\ mresult' = [mresult EXCEPT ![t] = Return(Len(heap) + 1)]
    /\ mpc' = [mpc EXCEPT ![t] = "idle"]

\* open_negotiation up to its first suspension: init_head is issued (line
\* 564).  When the command raises, so does the call; on a socket the
\* answer has no headId and line 565 makes up the key.
OpenCall(t, interest_rate) ==
    /\ mpc[t] = "idle"
    /\ nops > 0
    /\ nops' = nops - 1
    /\ InitHead(t)
    /\ margs' = [margs EXCEPT ![t] =
                    [NoArgs EXCEPT !.op = "open", !.rate = interest_rate,
                                   !.key = IF CmdReturned(t) THEN <<"head", now>> ELSE None]]
    /\ IF CmdRaised(t)
       THEN /\ mresult' = [mresult EXCEPT ![t] = result'[t]]
            /\ UNCHANGED mpc
       ELSE /\ mresult' = [mresult EXCEPT ![t] = NoResult]
            /\ mpc' = [mpc EXCEPT ![t] =
                          IF CmdReturned(t) THEN "open_wait" ELSE "open_init"]
    /\ UNCHANGED <<active_negotiations, heap>>

\* init_head in direct mode after its first sleep.
OpenInitUpdate(t) ==
    /\ mpc[t] = "open_init"
    /\ MockUpdate(t)
    /\ UNCHANGED mgrVars

\* init_head returns the HeadIsInitializing response; its headId is the
\* key (line 565) and the call sleeps 0.5 s (line 568).
OpenInitDone(t) ==
    /\ mpc[t] = "open_init"
    /\ MockOpen(t)
    /\ margs' = [margs EXCEPT ![t].key = resp[t].headId]
    /\ mpc' = [mpc EXCEPT ![t] = "open_wait"]
    /\ UNCHANGED <<active_negotiations, heap, mresult, nops>>

\* After the sleep of line 568: commit is issued (line 571).
OpenWait(t) ==
    /\ mpc[t] = "open_wait"
    /\ Commit(t)
    /\ IF CmdRaised(t)
       THEN /\ mresult' = [mresult EXCEPT ![t] = result'[t]]
            /\ mpc' = [mpc EXCEPT ![t] = "idle"]
            /\ UNCHANGED <<active_negotiations, heap>>
       ELSE IF CmdReturned(t)
       THEN Register(t)
       ELSE /\ mpc' = [mpc EXCEPT ![t] = "open_commit"]
            /\ UNCHANGED <<active_negotiations, heap, mresult>>
    /\ UNCHANGED <<margs, nops>>

\* commit returns and the call runs to its end without suspension.
OpenCommitDone(t) ==
    /\ mpc[t] = "open_commit"
    /\ MockUpdate(t)
    /\ Register(t)
    /\ UNCHANGED <<margs, nops>>

\* ---------------------------------------------------- submit_counter_offer
\* An unknown id raises (lines 611-612).  Else the call takes the session
\* object, counts the round on it and issues new_tx (lines 614-632); when
\* new_tx has no suspension the call also runs lines 635-652.
OfferCall(t, key, proposed_rate, from_party) ==
    /\ mpc[t] = "idle"
    /\ nops > 0
    /\ nops' = nops - 1
    /\ IF key \notin DOMAIN active_negotiations
       THEN /\ mresult' = [mresult EXCEPT ![t] = Raise(SessionNotFound)]
            /\ margs' = [margs EXCEPT ![t] =
                            [NoArgs EXCEPT !.op = "offer", !.key = key,
                                           !.rate = proposed_rate, !.from = from_party]]
            /\ UNCHANGED <<WEBSOCKETS_AVAILABLE, mode, websocket, state, head_id,
                           utxos, event_handlers, connected, mock_mode, now, pc,
                           call, resp, result, connect_result, attempts, sent,
                           delivered, ncmds>>
            /\ UNCHANGED <<active_negotiations, heap, mpc>>
       ELSE LET o == active_negotiations[key] IN
            /\ NewTx(t)
            /\ margs' = [margs EXCEPT ![t] =
                            [NoArgs EXCEPT !.op = "offer", !.key = key,
                                           !.rate = proposed_rate, !.from = from_party,
                                           !.obj = o]]
            /\ IF CmdRaised(t)
               THEN /\ heap' = BumpRounds(heap, o)
                    /\ mresult' = [mresult EXCEPT ![t] = result'[t]]
                    /\ UNCHANGED mpc
               ELSE IF CmdReturned(t)
               THEN /\ heap' = OfferApplied(BumpRounds(heap, o), o, proposed_rate, from_party)
                    /\ mresult' = [mresult EXCEPT ![t] =
                                      Return([round |-> heap'[o].rounds,
                                              old_rate |-> heap[o].current_rate,
                                              new_rate |-> proposed_rate])]
                    /\ UNCHANGED mpc
               ELSE /\ heap' = BumpRounds(heap, o)
                    /\ mresult' = [mresult EXCEPT ![t] = NoResult]
                    /\ mpc' = [mpc EXCEPT ![t] = "offer_tx"]
            /\ UNCHANGED active_negotiations

\* new_tx returns; lines 635-652 run without suspension on the object the
\* call took at line 614.
OfferDone(t) ==
    /\ mpc[t] = "offer_tx"
    /\ MockUpdate(t)
    /\ heap' = OfferApplied(heap, margs[t].obj, margs[t].rate, margs[t].from)
    /\ mresult' = [mresult EXCEPT ![t] =
                      Return([round |-> heap'[margs[t].obj].rounds,
                              old_rate |-> heap[margs[t].obj].current_rate,
                              new_rate |-> margs[t].rate])]
    /\ mpc' = [mpc EXCEPT ![t] = "idle"]
    /\ UNCHANGED <<active_negotiations, margs, nops>>

\* ------------------------------------------------------- accept_and_settle
\* Lines 684-700: the Settlement is built from the object the call holds as
\* it is now, and the key is deleted; del raises when the key is gone.
Finish(t) ==
    IF margs[t].key \in DOMAIN active_negotiations
    THEN /\ active_negotiations' = Remove(active_negotiations, margs[t].key)
         /\ mresult' = [mresult EXCEPT ![t] =
                           Return(Settlement(margs[t].key, heap[margs[t].obj]))]
    ELSE /\ mresult' = [mresult EXCEPT ![t] = Raise(KeyErrorHeadId)]
         /\ UNCHANGED active_negotiations

\* An unknown id raises (lines 664-665).  Else the call takes the session
\* object, logs its current rate (line 670) and issues close (line 675).
SettleCall(t, key) ==
    /\ mpc[t] = "idle"
    /\ nops > 0
    /\ nops' = nops - 1
    /\ IF key \notin DOMAIN active_negotiations
       THEN /\ mresult' = [mresult EXCEPT ![t] = Raise(SessionNotFound)]
            /\ margs' = [margs EXCEPT ![t] = [NoArgs EXCEPT !.op = "settle", !.key = key]]
            /\ UNCHANGED <<WEBSOCKETS_AVAILABLE, mode, websocket, state, head_id,
                           utxos, event_handlers, connected, mock_mode, now, pc,
                           call, resp, result, connect_result, attempts, sent,
                           delivered, ncmds>>
            /\ UNCHANGED mpc
       ELSE LET o == active_negotiations[key] IN
            /\ Close(t)
            /\ margs' = [margs EXCEPT ![t] =
                            [NoArgs EXCEPT !.op = "settle", !.key = key, !.obj = o,
                                           !.called_rate = heap[o].current_rate]]
            /\ IF CmdRaised(t)
               THEN /\ mresult' = [mresult EXCEPT ![t] = result'[t]]
                    /\ UNCHANGED mpc
               ELSE /\ mresult' = [mresult EXCEPT ![t] = NoResult]
                    /\ mpc' = [mpc EXCEPT ![t] =
                                  IF CmdReturned(t) THEN "settle_wait" ELSE "settle_close"]
    /\ UNCHANGED <<active_negotiations, heap>>

\* close returns and the call sleeps 0.3 s (line 678).
SettleCloseDone(t) ==
    /\ mpc[t] = "settle_close"
    /\ MockUpdate(t)
    /\ mpc' = [mpc EXCEPT ![t] = "settle_wait"]
    /\ UNCHANGED <<active_negotiations, heap, margs, mresult, nops>>

\* After the sleep of line 678: fanout is issued (line 681).
SettleWait(t) ==
    /\ mpc[t] = "settle_wait"
    /\ Fanout(t)
    /\ IF CmdRaised(t)
       THEN /\ mresult' = [mresult EXCEPT ![t] = result'[t]]
            /\ mpc' = [mpc EXCEPT ![t] = "idle"]
            /\ UNCHANGED active_negotiations
       ELSE IF CmdReturned(t)
       THEN /\ Finish(t)
            /\ mpc' = [mpc EXCEPT ![t] = "idle"]
       ELSE /\ mpc' = [mpc EXCEPT ![t] = "settle_fanout"]
            /\ UNCHANGED <<active_negotiations, mresult>>
    /\ UNCHANGED <<heap, margs, nops>>

\* fanout returns and the call runs to its end without suspension.
SettleFanoutDone(t) ==
    /\ mpc[t] = "settle_fanout"
    /\ MockUpdate(t)
    /\ Finish(t)
    /\ mpc' = [mpc EXCEPT ![t] = "idle"]
    /\ UNCHANGED <<heap, margs, nops>>

\* The manager with its default client (HydraConfig's mode is AUTO, line
\* 80), with and without the websockets package.
InitMgr == InitClient /\ mode = "AUTO" /\ InitManager(MaxOps)
InitMgrDeep == InitClient /\ mode = "AUTO" /\ InitManager(MaxOpsDeep)

\* The manager driven by two callers: each runs one call at a time; the
\* client is used through the manager only.  The sleeps have no length
\* here: a suspended call resumes at any later step, and the clock moves
\* on its own.
NextMgr ==
    \/ Tick /\ UNCHANGED <<mgrVars, sockVars, noteVars>>
    \/ Start /\ UNCHANGED <<sockVars, noteVars>>
    \/ Stop /\ UNCHANGED noteVars
    \/ \E t \in Tasks, r \in Rates : OpenCall(t, r)
          /\ UNCHANGED <<sockVars, noteVars>>
    \/ \E t \in Tasks : OpenInitUpdate(t)
          /\ UNCHANGED <<sockVars, noteVars>>
    \/ \E t \in Tasks : OpenInitDone(t)
          /\ UNCHANGED <<sockVars, noteVars>>
    \/ \E t \in Tasks : OpenWait(t)
          /\ UNCHANGED <<sockVars, noteVars>>
    \/ \E t \in Tasks : OpenCommitDone(t)
          /\ UNCHANGED <<sockVars, noteVars>>
    \/ \E t \in Tasks, k \in HeadIds, r \in Rates, p \in Parties : OfferCall(t, k, r, p)
          /\ UNCHANGED <<sockVars, noteVars>>
    \/ \E t \in Tasks : OfferDone(t)
          /\ UNCHANGED <<sockVars, noteVars>>
    \/ \E t \in Tasks, k \in HeadIds : SettleCall(t, k)
          /\ UNCHANGED <<sockVars, noteVars>>
    \/ \E t \in Tasks : SettleCloseDone(t)
          /\ UNCHANGED <<sockVars, noteVars>>
    \/ \E t \in Tasks : SettleWait(t)
          /\ UNCHANGED <<sockVars, noteVars>>
    \/ \E t \in Tasks : SettleFanoutDone(t)
          /\ UNCHANGED <<sockVars, noteVars>>

SpecMgr == InitMgr /\ [][NextMgr]_vars
SpecMgrDeep == InitMgrDeep /\ [][NextMgr]_vars

\* ======================================================================
\* Properties
\* ======================================================================

\* Error kinds the specification names and the code never raises.
InvalidStateError == "InvalidStateError"
ConnectFailedError == "ConnectionError: Failed to connect to Hydra node"

\* Position of a channel state in Idle, Initializing, Open, Closed,
\* FanoutPossible, Final.
Rank(s) ==
    CASE s = IDLE -> 0
      [] s = INITIALIZING -> 1
      [] s = OPEN -> 2
      [] s = CLOSED -> 3
      [] s = FANOUT_POSSIBLE -> 4
      [] s = FINAL -> 5

\* The step in which task t issues a command with this tag.
Issues(t, tag) == call'[t] # call[t] /\ call'[t].tag = tag

\* The step in which task t's command is refused: it raises at once, builds
\* no response, writes no frame and leaves the channel as it was.
Refused(t) ==
    /\ result'[t].kind = "raise"
    /\ pc'[t] = "idle"
    /\ resp'[t] = resp[t]
    /\ sent' = sent
    /\ state' = state
    /\ head_id' = head_id
    /\ utxos' = utxos

\* C1: within one lifecycle the channel state never moves backward in the
\* order Idle, Initializing, Open, Closed, FanoutPossible, Final; only the
\* step from Final to Initializing (a new Init after Final) starts again.
C1_StateNeverMovesBackward ==
    [][Rank(state') >= Rank(state) \/ (state = FINAL /\ state' = INITIALIZING)]_vars

\* C2: new_tx issued while the channel is not Open is refused (with
\* InvalidStateError when the transport is usable): no NewTx frame, no
\* TxValid response, channel state unchanged.
C2_NewTxOnlyWhenOpen ==
    [][\A t \in Tasks :
          (Issues(t, "NewTx") /\ state # OPEN) =>
              /\ Refused(t)
              /\ (mock_mode \/ connected) => result'[t].val = InvalidStateError]_vars

\* C3: init_head issued while the channel is Initializing, Open, Closed or
\* FanoutPossible is refused: no new initialization starts, the channel
\* state and the channel id stay as they are.
C3_InitOnlyFromIdle ==
    [][\A t \in Tasks :
          (Issues(t, "Init") /\ state \in {INITIALIZING, OPEN, CLOSED, FANOUT_POSSIBLE})
              => Refused(t)]_vars

\* C4: the channel state Final is entered only from Closed or
\* FanoutPossible, never directly from Idle, Initializing or Open.
C4_FinalOnlyFromClosed ==
    [][(state' = FINAL /\ state # FINAL) => state \in {CLOSED, FANOUT_POSSIBLE}]_vars

\* C5: a command (any of the six) issued while the client is neither
\* connected nor in direct mode raises "Not connected" in the same step,
\* and the channel state, channel id and UTxO set are what they were.
C5_DisconnectedCommandFails ==
    [][\A t \in Tasks :
          (call'[t] # call[t] /\ ~connected /\ ~mock_mode) =>
              /\ result'[t] = Raise(NotConnectedError)
              /\ pc'[t] = "idle"
              /\ sent' = sent
              /\ state' = state
              /\ head_id' = head_id
              /\ utxos' = utxos]_vars

\* C5 witness: after a connect() that raised, one task's Init and the other
\* task's GetUTxO have both failed with "Not connected".
C5_Witness ==
    /\ connect_result.kind = "raise"
    /\ call["t1"].tag = "Init" /\ result["t1"] = Raise(NotConnectedError)
    /\ call["t2"].tag = "GetUTxO" /\ result["t2"] = Raise(NotConnectedError)

\* C6: with mode REAL the client is never in direct mode; a connect() that
\* finds no node ends in ConnectionError, and no command is accepted while
\* there is no connection.
C6_RealOnlyNeverDirect ==
    mode = "REAL" =>
        /\ ~mock_mode
        /\ connect_result.kind # "none" => connect_result = Raise(ConnectFailedError)
        /\ ~connected => \A t \in Tasks : pc[t] = "idle" /\ result[t].kind # "return"

\* C7: with mode AUTO and no node to reach, connect() returns False without
\* raising after at most reconnect_attempts attempts, leaving
\* connected = false and direct mode on.
C7_AutoFallsBackToDirect ==
    (mode = "AUTO" /\ connect_result.kind # "none") =>
        /\ connect_result = Return("False")
        /\ attempts <= reconnect_attempts
        /\ ~connected
        /\ mock_mode

\* C8: with mode DIRECT connect() makes no connection attempt and returns
\* at once with direct mode on and connected = false.
C8_DirectOnlyNoAttempt ==
    (mode = "DIRECT" /\ connect_result.kind # "none") =>
        /\ connect_result = Return("False")
        /\ attempts = 0
        /\ ~connected
        /\ mock_mode

\* C9: a direct-mode Init invokes the handlers subscribed to
\* HeadIsInitializing when the channel becomes Initializing, and afterwards
\* the handlers subscribed to HeadIsOpen, with the channel Open and the
\* channel id already assigned.
C9_DirectInitDeliversBothEvents ==
    [][\A t \in Tasks :
          /\ (pc[t] = "mock_delay" /\ call[t].tag = "Init" /\ pc'[t] = "mock_open_delay") =>
                /\ state' = INITIALIZING
                /\ Len(delivered') = Len(delivered) + Len(event_handlers["HeadIsInitializing"])
                /\ \A i \in (Len(delivered) + 1)..Len(delivered') :
                      delivered'[i].event = "HeadIsInitializing"
          /\ (pc[t] = "mock_open_delay" /\ pc'[t] = "idle") =>
                /\ state' = OPEN
                /\ head_id # None
                /\ Len(delivered') = Len(delivered) + Len(event_handlers["HeadIsOpen"])
                /\ \A i \in (Len(delivered) + 1)..Len(delivered') :
                      /\ delivered'[i].event = "HeadIsOpen"
                      /\ delivered'[i].headId = head_id]_vars

\* C10: when a direct-mode Commit, NewTx, Close or Fanout completes, every
\* handler subscribed to the event a node answers with (Committed, TxValid,
\* HeadIsClosed, HeadIsFinalized) has been invoked with that event.
C10_DirectModeDeliversAnswerEvents ==
    [][\A t \in Tasks :
          (pc[t] = "mock_delay" /\ pc'[t] = "idle"
             /\ call[t].tag \in {"Commit", "NewTx", "Close", "Fanout"}) =>
                /\ resp[t].tag = CASE call[t].tag = "Commit" -> "Committed"
                                   [] call[t].tag = "NewTx" -> "TxValid"
                                   [] call[t].tag = "Close" -> "HeadIsClosed"
                                   [] call[t].tag = "Fanout" -> "HeadIsFinalized"
                /\ Len(delivered') = Len(delivered) + Len(event_handlers[resp[t].tag])
                /\ \A i \in (Len(delivered) + 1)..Len(delivered') :
                      delivered'[i].event = resp[t].tag]_vars

\* ------------------------------------------------------------- manager
\* The errors the specification names for the manager; the code raises
\* ValueError where the specification says SessionNotFoundError.
ChannelOpenTimeoutError == "ChannelOpenTimeoutError"

\* The step in which task t's open_negotiation stores its session and
\* returns it.
OpenReturns(t) ==
    /\ mpc[t] \in {"open_wait", "open_commit"}
    /\ mpc'[t] = "idle"
    /\ mresult'[t].kind = "return"

\* The live sessions: the objects the table refers to.
Live == {active_negotiations[k] : k \in DOMAIN active_negotiations}

\* C11: the session open_negotiation returns has current rate and original
\* rate equal to the rate passed in, round counter 0 and no round records,
\* and on return it is in the live session table under its own id.
C11_OpenReturnsFreshLiveSession ==
    [][\A t \in Tasks :
          OpenReturns(t) =>
              LET session == heap'[mresult'[t].val] IN
              /\ session.current_rate = margs[t].rate
              /\ session.original_rate = margs[t].rate
              /\ session.rounds = 0
              /\ session.messages = <<>>
              /\ session.head_id \in DOMAIN active_negotiations'
              /\ active_negotiations'[session.head_id] = mresult'[t].val]_vars

\* An open_negotiation has returned a session that is live under its id.
C11_Witness ==
    \E t \in Tasks :
        /\ margs[t].op = "open"
        /\ mpc[t] = "idle"
        /\ mresult[t].kind = "return"
        /\ heap[mresult[t].val].current_rate \in Rates
        /\ heap[mresult[t].val].head_id \in DOMAIN active_negotiations
        /\ active_negotiations[heap[mresult[t].val].head_id] = mresult[t].val

\* C12: open_negotiation registers its session only when the channel is
\* observed in state Open, under the id of that channel.
C12_RegistersOnlyOnceOpenObserved ==
    [][\A t \in Tasks :
          OpenReturns(t) => /\ state' = OPEN
                            /\ head_id' = margs[t].key]_vars

\* C13: every open_negotiation is given an id no earlier open was given, so
\* the entry it stores replaces no entry of the live session table.
C13_OpenNeverReusesAnId ==
    [][\A t \in Tasks :
          OpenReturns(t) =>
              /\ margs[t].key \notin DOMAIN active_negotiations
              /\ \A o \in 1..Len(heap) : heap[o].head_id # margs[t].key]_vars

\* The step in which task t's submit_counter_offer returns its result.
OfferReturns(t) ==
    /\ margs'[t].op = "offer"
    /\ mresult'[t].kind = "return"
    /\ \/ mpc[t] = "offer_tx" /\ mpc'[t] = "idle"
       \/ mpc[t] = "idle" /\ Issues(t, "NewTx") /\ mpc'[t] = "idle"

\* The submit_counter_offer calls suspended in new_tx on object o.
InFlight(pcs, args, o) ==
    {t \in Tasks : pcs[t] = "offer_tx" /\ args[t].obj = o}

\* C14: every submit_counter_offer that returns has set the session's
\* current rate to the submitted rate and added one round record, also when
\* the rate equals the current one, and the round counter is the number of
\* calls made on the session: those that returned (one record each) and
\* those still running.
C14_RoundsCountEveryOffer ==
    [][\A t \in Tasks :
          OfferReturns(t) =>
              LET o == margs'[t].obj IN
              /\ heap'[o].current_rate = margs'[t].rate
              /\ mresult'[t].val.new_rate = margs'[t].rate
              /\ Len(heap'[o].messages) = Len(heap[o].messages) + 1
              /\ heap'[o].rounds = Len(heap'[o].messages)
                                   + Cardinality(InFlight(mpc', margs', o))]_vars

\* A session has two rounds, the second with the rate the first had set.
C14_Witness ==
    \E o \in 1..Len(heap) :
        /\ heap[o].rounds = 2
        /\ Len(heap[o].messages) = 2
        /\ heap[o].messages[1].rate = heap[o].messages[2].rate
        /\ heap[o].current_rate = heap[o].messages[2].rate
        /\ InFlight(mpc, margs, o) = {}

\* An accept_and_settle on id k has returned its Settlement.
Settled(k) ==
    \E u \in Tasks :
        /\ margs[u].op = "settle"
        /\ margs[u].key = k
        /\ mpc[u] = "idle"
        /\ mresult[u].kind = "return"

\* C15: submit_counter_offer sends a transaction only for an id that is in
\* the live session table and has not been settled; for any other id it
\* raises the session-not-found error and changes nothing.
C15_NoOfferOnSettledOrUnknownId ==
    [][\A t \in Tasks :
          (Issues(t, "NewTx") /\ margs'[t].op = "offer") =>
              /\ margs'[t].key \in DOMAIN active_negotiations
              /\ ~Settled(margs'[t].key)]_vars

\* C16: the round records of a session carry the round numbers 1, 2, ...
\* in the order appended, without duplicate or gap.
C16_RoundRecordsNumberedInOrder ==
    \A o \in 1..Len(heap) :
        \A i \in 1..Len(heap[o].messages) : heap[o].messages[i].round = i

\* C17: a session's round counter, current rate and round records change
\* only in the steps of a submit_counter_offer call made on that session's
\* id; calls on another session leave it as it is.
C17_OffersTouchOnlyTheirSession ==
    [][\A o \in 1..Len(heap) :
          heap'[o] # heap[o] =>
              \E t \in Tasks :
                  /\ margs'[t].op = "offer"
                  /\ margs'[t].obj = o
                  /\ margs'[t].key = heap[o].head_id
                  /\ \/ Issues(t, "NewTx")
                     \/ mpc[t] = "offer_tx" /\ mpc'[t] = "idle"]_vars

\* Two sessions with different ids are live and a submit_counter_offer is
\* suspended in new_tx on each of them at once, with different rates: each
\* session's counter is 1 and neither has a record or a new rate yet.
C17_Witness ==
    \E a \in Live, b \in Live, t \in Tasks, u \in Tasks :
        /\ a # b
        /\ heap[a].head_id # heap[b].head_id
        /\ t # u
        /\ mpc[t] = "offer_tx" /\ margs[t].obj = a
        /\ mpc[u] = "offer_tx" /\ margs[u].obj = b
        /\ margs[t].rate # margs[u].rate
        /\ heap[a].rounds = 1 /\ heap[a].messages = <<>>
        /\ heap[b].rounds = 1 /\ heap[b].messages = <<>>

\* C18: accept_and_settle is terminal: once it has returned a Settlement
\* for an id, no later call on that id goes on to close the channel, and a
\* call that fails fails with the session-not-found error.
C18_SettleIsTerminal ==
    [][\A t \in Tasks :
          /\ (Issues(t, "Close") /\ margs'[t].op = "settle") =>
                 ~Settled(margs'[t].key)
          /\ (margs'[t].op = "settle" /\ mresult'[t].kind = "raise") =>
                 mresult'[t].val = SessionNotFound]_vars

\* The step in which task t's accept_and_settle ends after fanout.
SettleEnds(t) ==
    /\ mpc[t] \in {"settle_wait", "settle_fanout"}
    /\ mpc'[t] = "idle"

\* C20: the Settlement carries the rate the session had when
\* accept_and_settle was called.
C20_FinalRateIsRateAtCall ==
    [][\A t \in Tasks :
          (SettleEnds(t) /\ mresult'[t].kind = "return") =>
              mresult'[t].val.final_rate = margs[t].called_rate]_vars

\* round(rate * 100) for a rate written in hundredths of a percent.
RoundRateTimes100(rate) == rate

\* C21: the basis-points field of every Settlement is the final rate times
\* 100 rounded to the nearest integer.
C21_BasisPointsAreRounded ==
    \A t \in Tasks :
        (margs[t].op = "settle" /\ mpc[t] = "idle" /\ mresult[t].kind = "return") =>
            mresult[t].val.final_rate_bps = RoundRateTimes100(mresult[t].val.final_rate)

\* C24: the current rate of every live session is the rate of its last
\* round record, or its original rate when it has no round record.
C24_CurrentRateIsLastRecord ==
    \A o \in Live :
        heap[o].current_rate =
            IF heap[o].messages = <<>>
            THEN heap[o].original_rate
            ELSE heap[o].messages[Len(heap[o].messages)].rate

\* A live session whose counter-offer moved the rate away from the original.
C24_Witness ==
    \E o \in Live :
        /\ Len(heap[o].messages) >= 1
        /\ heap[o].current_rate # heap[o].original_rate
        /\ heap[o].current_rate = heap[o].messages[Len(heap[o].messages)].rate

\* Task t's accept_and_settle has ended.
SettleEnded(t) ==
    /\ margs[t].op = "settle"
    /\ mpc[t] = "idle"
    /\ mresult[t].kind # "none"

\* C28: of the accept_and_settle calls that have ended, each returned a
\* Settlement or failed with the session-not-found error, and no two
\* returned a Settlement for the same session.
C28_ExactlyOneSettlementPerSession ==
    \A t \in Tasks :
        SettleEnded(t) =>
            /\ mresult[t].kind = "raise" => mresult[t].val = SessionNotFound
            /\ \A u \in Tasks \ {t} :
                  (SettleEnded(u) /\ mresult[t].kind = "return"
                                  /\ mresult[u].kind = "return")
                  => margs[u].obj # margs[t].obj

\* C30: the step in which accept_and_settle on session A ends leaves every
\* other live session in the table under its id, and every session object
\* (round counter, current rate, round records) as it was.
C30_SettleRemovesOnlyItsSession ==
    [][\A t \in Tasks :
          SettleEnds(t) =>
              /\ \A k \in DOMAIN active_negotiations :
                    active_negotiations[k] # margs[t].obj =>
                        /\ k \in DOMAIN active_negotiations'
                        /\ active_negotiations'[k] = active_negotiations[k]
              /\ heap' = heap]_vars

\* C23: from the return of disconnect() until the caller connects again, no
\* handler is invoked.
C23_NoDispatchAfterDisconnect ==
    [][disconnected => delivered' = delivered]_vars

\* A turn of the receive loop: the first frame of the inbox is consumed.
Receives == inbox # <<>> /\ inbox' = Tail(inbox)

\* C25: when a frame is dispatched, every handler registered for its event is
\* invoked, in registration order, also after one of them raised; the
\* receive loop keeps running and the client stays connected.
C25_RaisingHandlerStopsNothing ==
    [][(Receives /\ ~Head(inbox).malformed) =>
          LET hs == HandlersOf(TagOf(Head(inbox)))
          IN  /\ Len(delivered') = Len(delivered) + Len(hs)
              /\ \A i \in 1..Len(hs) : delivered'[Len(delivered) + i].handler = hs[i]
              /\ receive_task' = "running"
              /\ connected']_vars

\* A frame was dispatched to a raising handler and then to the handler
\* registered after it, and the loop is still running.
C25_Witness ==
    \E e \in RecvEvents :
        /\ HandlersOf(e) = <<"h_raises", "h1">>
        /\ Len(delivered) >= 2
        /\ delivered[Len(delivered) - 1].handler = "h_raises"
        /\ delivered[Len(delivered)].handler = "h1"
        /\ delivered[Len(delivered)].event = e
        /\ receive_task = "running"
        /\ connected

====
